---- MODULE Spec2Model ----
(***************************************************************************)
(* Resume Doctor: the submission orchestrator (SubmitBar.handleSubmit,     *)
(* useSubmitAnalysis.submitAnalysis, GeminiService.streamAnalysis), the    *)
(* zustand stores it works on and the cooldown interval.                   *)
(*                                                                         *)
(* Granularity: one action is one run-to-completion JavaScript task (an    *)
(* event handler, a promise continuation together with the microtasks it   *)
(* triggers, or an interval callback).  React commits a render between     *)
(* tasks, so an event handler sees the props and closure values of the     *)
(* state as it is when the event arrives; the values a handler closes      *)
(* over are captured when the click is accepted (the parsedResume,         *)
(* formData and apiKey fields of calls[id]).                               *)
(*                                                                         *)
(* Text is a sequence of tokens.  The k-th chunk the backend sends on      *)
(* stream id carries either no text or the single token <<id, k>>; the     *)
(* truncation notice of stream id is the token <<id, 0>>.                  *)
(***************************************************************************)
EXTENDS Integers, Sequences, FiniteSets, TLC

\* ---- bounds of the model ------------------------------------------------
MaxSubmits == 2
MaxChunks == 2
MaxParses == 3

\* ---- program constants --------------------------------------------------
CooldownDuration == 60

\* ---- values -------------------------------------------------------------
Null == <<>>
Some(x) == <<x>>
Get(opt) == opt[1]

ResumeTexts == {"resumeA", "resumeB"}

EmptyFormData ==
  [analysisDepth |-> "", domain |-> "", targetRole |-> "",
   targetCompany |-> "", experienceLevel |-> ""]

\* What react-hook-form's watch() can return: the three selects always hold
\* one of their options (defaults compact / universal / Mid), the two text
\* inputs are empty or filled.
WatchedValues ==
  [analysisDepth : {"compact"}, domain : {"universal"},
   targetRole : {"", "Backend Engineer"}, targetCompany : {"", "Acme"},
   experienceLevel : {"Mid"}]

ApiKeys == {"", "AIkey"}
Tokens == {"", "tok"}
\* what getRecaptchaToken rejects with
TokenErrors ==
  { [isError |-> TRUE, msg |-> "reCAPTCHA not configured"],
    [isError |-> TRUE, msg |-> "reCAPTCHA verification failed"] }
FinishReasons == {"STOP", "MAX_TOKENS", "SAFETY", "RECITATION", "OTHER"}

\* A raw failure of the backend call: the message text and which of the
\* adapter's marker substrings the message includes.
BackendErrors ==
  { [isError |-> TRUE, msg |-> "API_KEY_INVALID", codes |-> {"API_KEY_INVALID"}],
    [isError |-> TRUE, msg |-> "QUOTA_EXCEEDED", codes |-> {"QUOTA_EXCEEDED"}],
    [isError |-> TRUE, msg |-> "RATE_LIMIT_EXCEEDED", codes |-> {"RATE_LIMIT_EXCEEDED"}],
    [isError |-> TRUE, msg |-> "Failed to fetch", codes |-> {}],
    [isError |-> FALSE, msg |-> "", codes |-> {}] }

VARIABLES
  parsedResume,     \* useAppState.parsedResume: Null or Some(document)
  formData,         \* useAppState.formData
  analysisResult,   \* useAppState.analysisResult: Null or Some(snapshot)
  isAnalyzing,      \* useAppState.isAnalyzing
  cooldownSeconds,  \* useAppState.cooldownSeconds
  apiKey,           \* useSession.apiKey
  isVerifying,      \* SubmitBar state
  recaptchaError,   \* SubmitBar state (token-error slot)
  isSubmitting,     \* useSubmitAnalysis state
  submitError,      \* useSubmitAnalysis state (submit-error slot)
  calls,            \* in-flight handleSubmit/submitAnalysis invocations
  timers,           \* live setInterval handles
  tokenRequests,    \* bot-token requests issued so far
  genRequests,      \* generation requests issued so far
  snapshots,        \* non-null values given to setAnalysisResult since the last stream start
  ticks,            \* interval callbacks run since the last cooldown start
  submitCalls,      \* invocations of submitAnalysis so far
  cooldownStarts,   \* cooldowns started so far
  lastEvent,        \* the task that ran last
  lastFinish,       \* the finish reason, when the task that ran last ended a stream
  lastSubmit,       \* when the task that ran last called onSubmit: the token returned,
                    \* the token passed, and whether buildPrompt was reached
  parses,           \* Main.handleFileSelect invocations waiting for parseFile
  isProcessing,     \* Main state
  parseError,       \* Main state `error` (document-error slot)
  parseRequests,    \* files handed to handleFileSelect so far, in order
  parseDone,        \* the handleFileSelect invocations whose parseFile has resolved
  adapterRun,       \* a run of the adapter's catch block: the raw error and what is thrown
  hydrateRun,       \* a run of buildPrompt: its arguments and the prompt returned
  fileRun,          \* a run of parseFile up to its extractor: the file and what becomes of it
  extractRun,       \* a run of an extractor: the content and the result returned
  storeCall         \* the last call of a slot's setter: the slot and the value supplied

vars ==
  <<parsedResume, formData, analysisResult, isAnalyzing, cooldownSeconds,
    apiKey, isVerifying, recaptchaError, isSubmitting, submitError, calls,
    timers, tokenRequests, genRequests, snapshots, ticks, submitCalls,
    cooldownStarts, lastEvent, lastFinish, lastSubmit, parses, isProcessing,
    parseError, parseRequests, parseDone, adapterRun, hydrateRun, fileRun,
    extractRun, storeCall>>

\* Main's document state, and the runs of the pure functions
document == <<parses, isProcessing, parseError, parseRequests, parseDone>>
runs == <<adapterRun, hydrateRun, fileRun, extractRun, storeCall>>

store == <<parsedResume, formData, analysisResult, isAnalyzing, cooldownSeconds>>

\* ---- Main.tsx: derived render values ------------------------------------
IsFormCompleteOf(fd) ==
  /\ fd.analysisDepth # ""
  /\ fd.domain # ""
  /\ fd.targetRole # ""
  /\ fd.targetCompany # ""
  /\ fd.experienceLevel # ""

isFormComplete == IsFormCompleteOf(formData)

\* (a slip: the busy flags are left out)
isSubmitDisabledNoBusy == parsedResume = Null \/ ~isFormComplete

\* (a slip: the document is not required)
isSubmitDisabledNoResume == ~isFormComplete \/ isAnalyzing \/ isSubmitting

isSubmitDisabled ==
  parsedResume = Null \/ ~isFormComplete \/ isAnalyzing \/ isSubmitting

\* ---- SubmitBar.tsx -------------------------------------------------------
\* (a slip: the API key is not required)
buttonDisabledNoKey == isSubmitDisabled \/ cooldownSeconds > 0

buttonDisabled == isSubmitDisabled \/ cooldownSeconds > 0 \/ apiKey = ""

\* the disabled attribute of the submit button: a disabled button drops clicks

domDisabled == buttonDisabled \/ isVerifying

\* the early return of handleSubmit
handleSubmitReturnsEarly == cooldownSeconds > 0 \/ isSubmitDisabled

\* (a slip: the token error is logged but not shown)
RecaptchaCatchMessageSilent(error) == ""

\* the catch block of handleSubmit: the message put in the token-error slot
RecaptchaCatchMessage(error) ==
  IF error.isError THEN error.msg ELSE "reCAPTCHA verification failed"

\* ---- useSubmitAnalysis.ts: step 1, validation ---------------------------
\* The message of the first check that throws, "" when all pass.  resume,
\* fd and key are the values the submitAnalysis closure holds.
\* (a slip: the API key is checked before the document and the configuration)
ValidationErrorKeyFirst(resume, fd, key, recaptchaToken) ==
  IF key = "" THEN "Please enter your Gemini API key"
  ELSE IF resume = Null THEN "Please upload or paste your resume first"
  ELSE IF fd.analysisDepth = "" \/ fd.domain = ""
    THEN "Please complete the analysis configuration"
  ELSE IF fd.targetRole = "" \/ fd.targetCompany = ""
    THEN "Please enter target role and company"
  ELSE IF fd.experienceLevel = "" THEN "Please select your experience level"
  ELSE IF recaptchaToken = "" THEN "reCAPTCHA verification failed"
  ELSE ""

ValidationError(resume, fd, key, recaptchaToken) ==
  IF resume = Null THEN "Please upload or paste your resume first"
  ELSE IF fd.analysisDepth = "" \/ fd.domain = ""
    THEN "Please complete the analysis configuration"
  ELSE IF fd.targetRole = "" \/ fd.targetCompany = ""
    THEN "Please enter target role and company"
  ELSE IF fd.experienceLevel = "" THEN "Please select your experience level"
  ELSE IF key = "" THEN "Please enter your Gemini API key"
  ELSE IF recaptchaToken = "" THEN "reCAPTCHA verification failed"
  ELSE ""

\* ---- prompts: buildPrompt throws when the template is missing -------------
BuildPromptError(depth, domain) ==
  IF depth \in {"compact", "full"}
       /\ domain \in {"universal", "technical", "nonTechnical"}
    THEN ""
    ELSE "Template not found for " \o depth \o "/" \o domain

\* ---- GeminiService.streamAnalysis ----------------------------------------
NoticeToken(id) == <<id, 0>>
ChunkToken(id, k) == <<id, k>>

SafetyMessage ==
  "Response blocked by content safety filters. Please try rephrasing your resume or job context."
RecitationMessage ==
  "Response blocked due to content recitation. Please try with different content."

\* (a slip: the quota test repeats the rate-limit message)
AdapterCatchQuotaAsRate(raw) ==
  IF raw.isError /\ "API_KEY_INVALID" \in raw.codes
    THEN "Invalid API key. Please check your Gemini API key."
  ELSE IF raw.isError /\ "QUOTA_EXCEEDED" \in raw.codes
    THEN "Rate limit exceeded. Please wait a moment and try again."
  ELSE IF raw.isError /\ "RATE_LIMIT_EXCEEDED" \in raw.codes
    THEN "Rate limit exceeded. Please wait a moment and try again."
  ELSE "Analysis failed: " \o (IF raw.isError THEN raw.msg ELSE "Unknown error")

\* the catch block: what is thrown to the caller for a raw error
AdapterCatch(raw) ==
  IF raw.isError /\ "API_KEY_INVALID" \in raw.codes
    THEN "Invalid API key. Please check your Gemini API key."
  ELSE IF raw.isError /\ "QUOTA_EXCEEDED" \in raw.codes
    THEN "API quota exceeded. Please try again later or check your billing."
  ELSE IF raw.isError /\ "RATE_LIMIT_EXCEEDED" \in raw.codes
    THEN "Rate limit exceeded. Please wait a moment and try again."
  ELSE "Analysis failed: " \o (IF raw.isError THEN raw.msg ELSE "Unknown error")

ThrownInTry(msg) == AdapterCatch([isError |-> TRUE, msg |-> msg, codes |-> {}])

ChunkEvent(text) == [kind |-> "chunk", text |-> text, msg |-> ""]
CompleteEvent == [kind |-> "complete", text |-> <<>>, msg |-> ""]
ThrowEvent(msg) == [kind |-> "throw", text |-> <<>>, msg |-> msg]

\* one chunk of result.stream: yielded only when its text is not empty
AdapterOnChunk(text) ==
  IF text # <<>> THEN <<ChunkEvent(text)>> ELSE <<>>

\* (a slip: the terminal chunk is yielded before the finish reason is looked at)
AdapterOnEndCompleteFirst(id, finishReason) ==
  <<CompleteEvent>> \o
  (IF finishReason = "SAFETY" THEN <<ThrowEvent(ThrownInTry(SafetyMessage))>>
   ELSE IF finishReason = "RECITATION"
     THEN <<ThrowEvent(ThrownInTry(RecitationMessage))>>
   ELSE <<>>)

\* (a slip: the length limit is only logged, the notice is not yielded)
AdapterOnEndNoNotice(id, finishReason) ==
  IF finishReason = "SAFETY" THEN <<ThrowEvent(ThrownInTry(SafetyMessage))>>
  ELSE IF finishReason = "RECITATION"
    THEN <<ThrowEvent(ThrownInTry(RecitationMessage))>>
  ELSE <<CompleteEvent>>

\* after the last chunk: what the generator yields or throws for a finish reason
AdapterOnEnd(id, finishReason) ==
  (IF finishReason = "MAX_TOKENS"
     THEN <<ChunkEvent(<<NoticeToken(id)>>)>> ELSE <<>>) \o
  (IF finishReason = "SAFETY" THEN <<ThrowEvent(ThrownInTry(SafetyMessage))>>
   ELSE IF finishReason = "RECITATION"
     THEN <<ThrowEvent(ThrownInTry(RecitationMessage))>>
   ELSE <<CompleteEvent>>)

\* a failure of generateContentStream or of result.stream
AdapterOnError(raw) == <<ThrowEvent(AdapterCatch(raw))>>

\* ---- useSubmitAnalysis.ts: step 5, the for-await loop ---------------------
Snapshot(content, streaming) == [content |-> content, isStreaming |-> streaming]

\* (a slip: the accumulator is replaced by the chunk instead of extended)
OnChunkContentReplace(fullContent, text) == text

OnChunkContent(fullContent, text) == fullContent \o text

\* Loop state: the accumulator, the analysisResult slot, the values published,
\* and the message of the error that left the loop ("" while none).
RECURSIVE Consume(_, _)
Consume(events, st) ==
  IF events = <<>> \/ st.thrown # "" THEN st
  ELSE LET e == Head(events) IN
    Consume(Tail(events),
      IF e.kind = "throw" THEN [st EXCEPT !.thrown = e.msg]
      ELSE IF e.kind = "chunk" THEN
        LET c == OnChunkContent(st.fullContent, e.text) IN
        [st EXCEPT !.fullContent = c,
                   !.result = Some(Snapshot(c, TRUE)),
                   !.published = Append(@, Snapshot(c, TRUE))]
      ELSE
        [st EXCEPT !.result = Some(Snapshot(st.fullContent, FALSE)),
                   !.published = Append(@, Snapshot(st.fullContent, FALSE))])

LoopState(id) ==
  [fullContent |-> calls[id].fullContent, result |-> analysisResult,
   published |-> snapshots, thrown |-> ""]

\* ---- the cooldown interval callback --------------------------------------
\* (a slip: the interval is left running when the countdown ends)
IntervalStepNoClear(currentCooldown) ==
  IF currentCooldown <= 1 THEN [cooldown |-> 0, clear |-> FALSE]
  ELSE [cooldown |-> currentCooldown - 1, clear |-> FALSE]

\* (a slip: the countdown ends one tick early)
IntervalStepEarly(currentCooldown) ==
  IF currentCooldown <= 2 THEN [cooldown |-> 0, clear |-> TRUE]
  ELSE [cooldown |-> currentCooldown - 1, clear |-> FALSE]

\* (a slip: the countdown is not stopped at zero)
IntervalStepNoFloor(currentCooldown) ==
  [cooldown |-> currentCooldown - 1, clear |-> currentCooldown <= 0]

\* (a slip: the interval is cleared at 1 without storing 0)
IntervalStepStuck(currentCooldown) ==
  IF currentCooldown <= 1 THEN [cooldown |-> currentCooldown, clear |-> TRUE]
  ELSE [cooldown |-> currentCooldown - 1, clear |-> FALSE]

IntervalStep(currentCooldown) ==
  IF currentCooldown <= 1 THEN [cooldown |-> 0, clear |-> TRUE]
  ELSE [cooldown |-> currentCooldown - 1, clear |-> FALSE]

\* ---- useSubmitAnalysis.ts: leaving the try block -------------------------
\* (a slip: the cooldown is started in every case)
ReachesCooldownAlways(thrown) == TRUE

\* step 6 is reached only when nothing was thrown before it
ReachesCooldown(thrown) == thrown = ""

\* (a slip: the catch block leaves the result as it is)
CatchResultKeep(result) == result

\* the catch block: setAnalysisResult(null)
CatchResult(result) == Null

\* ---- initial state -------------------------------------------------------
AppInit ==
  /\ parsedResume = Null
  /\ formData = EmptyFormData
  /\ analysisResult = Null
  /\ isAnalyzing = FALSE
  /\ cooldownSeconds = 0
  /\ apiKey = ""
  /\ isVerifying = FALSE
  /\ recaptchaError = ""
  /\ isSubmitting = FALSE
  /\ submitError = ""
  /\ calls = <<>>
  /\ timers = {}
  /\ tokenRequests = 0
  /\ genRequests = 0
  /\ snapshots = <<>>
  /\ ticks = 0
  /\ submitCalls = 0
  /\ cooldownStarts = 0
  /\ lastEvent = "Init"
  /\ lastFinish = ""
  /\ lastSubmit = Null

DocumentInit ==
  /\ parses = <<>>
  /\ isProcessing = FALSE
  /\ parseError = ""
  /\ parseRequests = <<>>
  /\ parseDone = {}

RunsInit ==
  /\ adapterRun = Null
  /\ hydrateRun = Null
  /\ fileRun = Null
  /\ extractRun = Null
  /\ storeCall = Null

Init == AppInit /\ DocumentInit /\ RunsInit

Without(f, id) == [i \in DOMAIN f \ {id} |-> f[i]]

\* ---- user input other than the submit button ------------------------------
\* Main.handleTextInput: parseTextInput does not throw; the document replaces
\* the active one.
HandleTextInput(text) ==
  /\ parsedResume' = Some([text |-> text, source |-> "text", fileName |-> "Pasted Text"])
  /\ lastEvent' = "HandleTextInput"
  /\ lastFinish' = ""
  /\ parseError' = ""
  /\ UNCHANGED <<parses, isProcessing, parseRequests, parseDone, runs>>
  /\ lastSubmit' = Null
  /\ UNCHANGED <<formData, analysisResult, isAnalyzing, cooldownSeconds, apiKey,
                 isVerifying, recaptchaError, isSubmitting, submitError, calls,
                 timers, tokenRequests, genRequests, snapshots, ticks, submitCalls,
                 cooldownStarts>>

\* Main.handleClearResume
HandleClearResume ==
  /\ parsedResume # Null
  /\ parsedResume' = Null
  /\ lastEvent' = "HandleClearResume"
  /\ lastFinish' = ""
  /\ UNCHANGED <<document, runs>>
  /\ lastSubmit' = Null
  /\ UNCHANGED <<formData, analysisResult, isAnalyzing, cooldownSeconds, apiKey,
                 isVerifying, recaptchaError, isSubmitting, submitError, calls,
                 timers, tokenRequests, genRequests, snapshots, ticks, submitCalls,
                 cooldownStarts>>

\* useAppState.setFormData: the given fields are merged over the stored ones
SetFormData(old, data) ==
  [k \in DOMAIN old \cup DOMAIN data |-> IF k \in DOMAIN data THEN data[k] ELSE old[k]]

\* PromptConfigForm's effect: the watched values are written to the store
\* when they differ from it
FormChange(watchedValues) ==
  /\ formData # watchedValues
  /\ formData' = SetFormData(formData, watchedValues)
  /\ lastEvent' = "FormChange"
  /\ lastFinish' = ""
  /\ UNCHANGED <<document, runs>>
  /\ lastSubmit' = Null
  /\ UNCHANGED <<parsedResume, analysisResult, isAnalyzing, cooldownSeconds, apiKey,
                 isVerifying, recaptchaError, isSubmitting, submitError, calls,
                 timers, tokenRequests, genRequests, snapshots, ticks, submitCalls,
                 cooldownStarts>>

\* the API key input (setApiKey) and the clear-key button (clearApiKey)
SetApiKey(key) ==
  /\ apiKey # key
  /\ apiKey' = key
  /\ lastEvent' = "SetApiKey"
  /\ lastFinish' = ""
  /\ UNCHANGED <<document, runs>>
  /\ lastSubmit' = Null
  /\ UNCHANGED <<store, isVerifying, recaptchaError, isSubmitting, submitError,
                 calls, timers, tokenRequests, genRequests, snapshots, ticks, submitCalls,
                 cooldownStarts>>

\* ---- SubmitBar: a click on the submit button ------------------------------
\* the action name handleSubmit gives to getRecaptchaToken
TokenAction == "submit_analysis"

\* (a slip: the handler is called without the token)
OnSubmitArgNone(token) == ""

\* what handleSubmit passes to onSubmit once the token has arrived
OnSubmitArg(token) == token

\* A click on a disabled button never reaches handleSubmit; handleSubmit
\* itself returns early during a cooldown or when isDisabled.  Otherwise it
\* sets isVerifying, clears the token error and requests a token.
Click ==
  /\ domDisabled \/ handleSubmitReturnsEarly \/ tokenRequests < MaxSubmits
  /\ IF domDisabled \/ handleSubmitReturnsEarly
       THEN UNCHANGED <<isVerifying, recaptchaError, tokenRequests, calls>>
       ELSE /\ isVerifying' = TRUE
            /\ recaptchaError' = ""
            /\ tokenRequests' = tokenRequests + 1
            /\ calls' = ((tokenRequests + 1) :>
                          [pc |-> "token",
                           action |-> TokenAction,
                           parsedResume |-> parsedResume,
                           formData |-> formData,
                           apiKey |-> apiKey,
                           chunks |-> 0,
                           totalText |-> <<>>,
                           fullContent |-> <<>>]) @@ calls
  /\ lastEvent' = "Click"
  /\ lastFinish' = ""
  /\ UNCHANGED <<document, runs>>
  /\ lastSubmit' = Null
  /\ UNCHANGED <<store, apiKey, isSubmitting, submitError, timers, genRequests,
                 snapshots, ticks, submitCalls, cooldownStarts>>

\* getRecaptchaToken rejects: the catch and finally blocks of handleSubmit
TokenReject(id, error) ==
  /\ id \in DOMAIN calls
  /\ calls[id].pc = "token"
  /\ recaptchaError' = RecaptchaCatchMessage(error)
  /\ isVerifying' = FALSE
  /\ calls' = Without(calls, id)
  /\ lastEvent' = "TokenReject"
  /\ lastFinish' = ""
  /\ UNCHANGED <<document, runs>>
  /\ lastSubmit' = Null
  /\ UNCHANGED <<store, apiKey, isSubmitting, submitError, timers,
                 tokenRequests, genRequests, snapshots, ticks, submitCalls,
                 cooldownStarts>>

\* getRecaptchaToken resolves: onSubmit(token) runs submitAnalysis up to its
\* first await (validation, buildPrompt, first snapshot, the generation
\* request), or through its catch and finally blocks when a check throws;
\* then the finally block of handleSubmit clears isVerifying.
TokenResolve(id, token) ==
  /\ id \in DOMAIN calls
  /\ calls[id].pc = "token"
  /\ submitCalls' = submitCalls + 1
  /\ LET c == calls[id]
         v == ValidationError(c.parsedResume, c.formData, c.apiKey, OnSubmitArg(token))
         thrown == IF v # "" THEN v
                   ELSE BuildPromptError(c.formData.analysisDepth, c.formData.domain)
     IN /\ lastSubmit' = Some([returned |-> token, passed |-> OnSubmitArg(token),
                                built |-> (v = "")])
        /\ IF thrown # ""
          THEN /\ submitError' = thrown
               /\ isAnalyzing' = FALSE
               /\ analysisResult' = CatchResult(analysisResult)
               /\ isSubmitting' = FALSE
               /\ calls' = Without(calls, id)
               /\ UNCHANGED <<genRequests, snapshots>>
          ELSE /\ submitError' = ""
               /\ isSubmitting' = TRUE
               /\ isAnalyzing' = TRUE
               /\ analysisResult' = Some(Snapshot(<<>>, TRUE))
               /\ snapshots' = <<Snapshot(<<>>, TRUE)>>
               /\ genRequests' = genRequests + 1
               /\ calls' = [calls EXCEPT ![id].pc = "streaming"]
  /\ isVerifying' = FALSE
  /\ lastEvent' = "TokenResolve"
  /\ lastFinish' = ""
  /\ UNCHANGED <<document, runs>>
  /\ UNCHANGED <<parsedResume, formData, cooldownSeconds, apiKey, recaptchaError,
                 timers, tokenRequests, ticks, cooldownStarts>>

\* ---- the stream ----------------------------------------------------------
\* The generator hands the events to the for-await loop of submitAnalysis.
\* finished: the generator has returned or thrown, so the loop is left and
\* submitAnalysis runs to its end (cooldown start, or catch, then finally).
Deliver(id, events, finished) ==
  LET st == Consume(events, LoopState(id)) IN
  /\ snapshots' = st.published
  /\ IF ~finished
       THEN /\ analysisResult' = st.result
            /\ calls' = [calls EXCEPT ![id].fullContent = st.fullContent,
                                      ![id].chunks = @ + 1,
                                      ![id].totalText =
                                          @ \o (IF events = <<>> THEN <<>> ELSE events[1].text)]
            /\ UNCHANGED <<isAnalyzing, cooldownSeconds, isSubmitting, submitError,
                           timers, ticks, cooldownStarts>>
       ELSE /\ calls' = Without(calls, id)
            /\ isAnalyzing' = FALSE
            /\ isSubmitting' = FALSE
            /\ IF st.thrown # ""
                 THEN /\ submitError' = st.thrown
                      /\ analysisResult' = CatchResult(st.result)
                 ELSE /\ analysisResult' = st.result
                      /\ UNCHANGED submitError
            /\ IF ReachesCooldown(st.thrown)
                 THEN /\ cooldownSeconds' = CooldownDuration
                      /\ timers' = timers \cup {id}
                      /\ ticks' = 0
                      /\ cooldownStarts' = cooldownStarts + 1
                 ELSE UNCHANGED <<cooldownSeconds, timers, ticks, cooldownStarts>>
  /\ UNCHANGED <<parsedResume, formData, apiKey, isVerifying, recaptchaError,
                 tokenRequests, genRequests, submitCalls>>

\* the backend sends the next chunk, with or without text
StreamChunk(id, hasText) ==
  /\ id \in DOMAIN calls
  /\ calls[id].pc = "streaming"
  /\ calls[id].chunks < MaxChunks
  /\ LET text == IF hasText THEN <<ChunkToken(id, calls[id].chunks + 1)>> ELSE <<>>
     IN Deliver(id, AdapterOnChunk(text), FALSE)
  /\ lastEvent' = "StreamChunk"
  /\ lastFinish' = ""
  /\ UNCHANGED <<document, runs>>
  /\ lastSubmit' = Null

\* the backend ends the stream with a finish reason
StreamEnd(id, finishReason) ==
  /\ id \in DOMAIN calls
  /\ calls[id].pc = "streaming"
  /\ Deliver(id, AdapterOnEnd(id, finishReason), TRUE)
  /\ lastEvent' = "StreamEnd"
  /\ lastFinish' = finishReason
  /\ UNCHANGED <<document, runs>>
  /\ lastSubmit' = Null

\* the request or the stream fails
StreamError(id, raw) ==
  /\ id \in DOMAIN calls
  /\ calls[id].pc = "streaming"
  /\ Deliver(id, AdapterOnError(raw), TRUE)
  /\ lastEvent' = "StreamError"
  /\ lastFinish' = ""
  /\ UNCHANGED <<document, runs>>
  /\ lastSubmit' = Null

\* ---- the cooldown interval ------------------------------------------------
CooldownTick(t) ==
  /\ t \in timers
  /\ LET r == IntervalStep(cooldownSeconds) IN
       /\ cooldownSeconds' = r.cooldown
       /\ timers' = IF r.clear THEN timers \ {t} ELSE timers
  /\ ticks' = ticks + 1
  /\ lastEvent' = "CooldownTick"
  /\ lastFinish' = ""
  /\ UNCHANGED <<document, runs>>
  /\ lastSubmit' = Null
  /\ UNCHANGED <<parsedResume, formData, analysisResult, isAnalyzing, apiKey,
                 isVerifying, recaptchaError, isSubmitting, submitError, calls,
                 tokenRequests, genRequests, snapshots, submitCalls,
                 cooldownStarts>>

Ids == 1..MaxSubmits

Next ==
  \/ \E text \in ResumeTexts : HandleTextInput(text)
  \/ HandleClearResume
  \/ \E w \in WatchedValues : FormChange(w)
  \/ \E key \in ApiKeys : SetApiKey(key)
  \/ Click
  \/ \E id \in Ids, error \in TokenErrors : TokenReject(id, error)
  \/ \E id \in Ids, token \in Tokens : TokenResolve(id, token)
  \/ \E id \in Ids, hasText \in BOOLEAN : StreamChunk(id, hasText)
  \/ \E id \in Ids, finishReason \in FinishReasons : StreamEnd(id, finishReason)
  \/ \E id \in Ids, raw \in BackendErrors : StreamError(id, raw)
  \/ \E t \in Ids : CooldownTick(t)

Spec == Init /\ [][Next]_vars

\* ======================= properties =======================================
ActiveStreams == {id \in DOMAIN calls : calls[id].pc = "streaming"}

\* the streams whose chunks occur in a text
Owners(content) == {content[i][1] : i \in 1..Len(content)}

IsProperPrefix(a, b) == Len(a) < Len(b) /\ SubSeq(b, 1, Len(a)) = a

\* the messages a failed stream surfaces
StreamFailureMessages ==
  {AdapterCatch(raw) : raw \in BackendErrors}
    \cup {ThrownInTry(SafetyMessage), ThrownInTry(RecitationMessage)}

\* C1: at most one stream is active at a time; a click made while a stream
\* is active requests no token, calls no handler and starts no stream; the
\* content of analysisResult holds chunks of one stream only.
C1_OneStreamInvariant ==
  /\ Cardinality(ActiveStreams) <= 1
  /\ analysisResult # Null => Cardinality(Owners(Get(analysisResult).content)) <= 1
  /\ \A i \in 1..Len(snapshots) : Cardinality(Owners(snapshots[i].content)) <= 1

C1_AtMostOneStream ==
  /\ []C1_OneStreamInvariant
  /\ [][(ActiveStreams # {} /\ lastEvent' = "Click")
          => /\ tokenRequests' = tokenRequests
             /\ submitCalls' = submitCalls
             /\ genRequests' = genRequests
             /\ calls' = calls
             /\ analysisResult' = analysisResult]_vars

\* a click was made on the second stream while it had published two chunks
C1_Witness ==
  /\ ActiveStreams = {2}
  /\ lastEvent = "Click"
  /\ analysisResult # Null
  /\ Len(Get(analysisResult).content) = 2

\* C2: after a submission whose stream failed, analysisResult is null and
\* no snapshot with isStreaming = false was published during it.
C2_FailedStreamLeavesNoResult ==
  submitError \in StreamFailureMessages
    => /\ analysisResult = Null
       /\ \A i \in 1..Len(snapshots) : snapshots[i].isStreaming

\* a stream that had published two chunks was blocked by the safety filter
C2_Witness ==
  /\ submitError = ThrownInTry(SafetyMessage)
  /\ Len(snapshots) = 3
  /\ analysisResult = Null
  /\ lastEvent = "StreamEnd"

\* C3: cooldownSeconds rises and a timer is created only in the step that
\* ends a stream successfully (final snapshot published, no error); a step
\* that ends an attempt with an error in either slot leaves cooldownSeconds
\* and the timers alone.
C3_CooldownOnlyAfterSuccess ==
  [][/\ (cooldownSeconds' > cooldownSeconds \/ ~(timers' \subseteq timers)
          \/ cooldownStarts' # cooldownStarts)
        => /\ \E id \in ActiveStreams : id \notin DOMAIN calls' /\ timers' = timers \cup {id}
           /\ submitError' = ""
           /\ analysisResult' # Null
           /\ ~Get(analysisResult').isStreaming
           /\ cooldownSeconds' = CooldownDuration
     /\ ((\E id \in DOMAIN calls : id \notin DOMAIN calls')
           /\ (submitError' # "" \/ recaptchaError' # ""))
        => /\ cooldownSeconds' = cooldownSeconds
           /\ timers' = timers
           /\ cooldownStarts' = cooldownStarts]_vars

\* after one full cooldown a second submission's stream failed: no new cooldown
C3_Witness ==
  /\ submitError \in StreamFailureMessages
  /\ tokenRequests = 2
  /\ cooldownStarts = 1
  /\ ticks = CooldownDuration
  /\ cooldownSeconds = 0
  /\ timers = {}

\* C4: at most one interval is live; one is live exactly while
\* cooldownSeconds > 0; a cooldown that has just started stands at the full
\* duration with its own timer as the only one.
C4_SingleTimer ==
  /\ Cardinality(timers) <= 1
  /\ timers # {} <=> cooldownSeconds > 0
  /\ (cooldownStarts > 0 /\ ticks = 0)
       => cooldownSeconds = CooldownDuration /\ Cardinality(timers) = 1

\* the second cooldown has started, after the first ran out
C4_Witness ==
  /\ cooldownStarts = 2
  /\ ticks = 0
  /\ timers = {2}
  /\ cooldownSeconds = CooldownDuration

\* C5: a token request is issued only when, at the click, a document
\* exists, the required configuration fields are present and an API key is
\* present; a generation request only for an attempt whose document,
\* configuration and key have passed these checks.
C5_ChecksBeforeNetwork ==
  [][/\ tokenRequests' # tokenRequests
        => parsedResume # Null /\ isFormComplete /\ apiKey # ""
     /\ genRequests' # genRequests
        => \E id \in DOMAIN calls :
             /\ calls[id].pc = "token"
             /\ calls'[id].pc = "streaming"
             /\ calls[id].parsedResume # Null
             /\ IsFormCompleteOf(calls[id].formData)
             /\ calls[id].apiKey # ""]_vars

\* both requests of an attempt have been issued
C5_Witness ==
  /\ tokenRequests = 1
  /\ genRequests = 1
  /\ lastEvent = "TokenResolve"
  /\ ActiveStreams = {1}

\* C6: while a stream runs, analysisResult holds the in-order concatenation
\* of the chunk texts received so far; every snapshot published with
\* isStreaming = true properly extends the one before it, and the final
\* snapshot keeps the content of the last one.
C6_SnapshotsGrow ==
  /\ \A id \in ActiveStreams :
       /\ analysisResult = Some(Snapshot(calls[id].totalText, TRUE))
       /\ \A i, j \in 1..Len(calls[id].totalText) :
            i < j => calls[id].totalText[i][2] < calls[id].totalText[j][2]
       /\ snapshots # <<>> /\ snapshots[Len(snapshots)] = Get(analysisResult)
  /\ \A i \in 1..(Len(snapshots) - 1) :
       /\ snapshots[i].isStreaming
       /\ IF snapshots[i + 1].isStreaming
            THEN IsProperPrefix(snapshots[i].content, snapshots[i + 1].content)
            ELSE snapshots[i].content = snapshots[i + 1].content

\* two chunks with text have been published and the stream still runs
C6_Witness ==
  /\ ActiveStreams # {}
  /\ Len(snapshots) = 3
  /\ Len(snapshots[3].content) = 2
  /\ lastEvent = "StreamChunk"

\* C7: the step in which the token request rejects calls no submission
\* handler, issues no generation request, leaves analysisResult and the
\* submit slot alone and puts the rejection's message in the token-error slot.
C7_TokenRejectAborts ==
  [][lastEvent' = "TokenReject"
       => /\ submitCalls' = submitCalls
          /\ genRequests' = genRequests
          /\ analysisResult' = analysisResult
          /\ snapshots' = snapshots
          /\ isSubmitting' = isSubmitting
          /\ submitError' = submitError
          /\ recaptchaError' # ""
          /\ \E e \in TokenErrors : recaptchaError' = e.msg
          /\ ActiveStreams' = ActiveStreams]_vars

\* a token request was rejected while an earlier result was on display
C7_Witness ==
  /\ lastEvent = "TokenReject"
  /\ recaptchaError = "reCAPTCHA verification failed"
  /\ analysisResult # Null
  /\ submitCalls = 1
  /\ tokenRequests = 2

\* C8: a click made during a cooldown, while the form is disabled or while
\* no API key is entered requests no token and calls no handler.
C8_BlockedClickDoesNothing ==
  [][(lastEvent' = "Click"
        /\ (cooldownSeconds > 0 \/ isSubmitDisabled \/ apiKey = ""))
       => /\ tokenRequests' = tokenRequests
          /\ submitCalls' = submitCalls
          /\ genRequests' = genRequests
          /\ calls' = calls
          /\ isVerifying' = isVerifying]_vars

\* a click during a running cooldown, everything else in order
C8_Witness ==
  /\ lastEvent = "Click"
  /\ cooldownSeconds > 0
  /\ ~isSubmitDisabled
  /\ apiKey # ""
  /\ ~isVerifying
  /\ calls = <<>>

\* C9: after the k-th tick of a cooldown cooldownSeconds is 60 - k; the
\* timer stops exactly at the 60th tick, when cooldownSeconds is 0.
C9_CountdownExact ==
  cooldownStarts > 0
    => /\ cooldownSeconds = CooldownDuration - ticks
       /\ timers = {} <=> ticks = CooldownDuration

\* the cooldown has run out and the next click was accepted
C9_Witness ==
  /\ cooldownStarts = 1
  /\ ticks = CooldownDuration
  /\ cooldownSeconds = 0
  /\ timers = {}
  /\ lastEvent = "Click"
  /\ isVerifying
  /\ tokenRequests = 2

\* C10: cooldownSeconds is always between 0 and 60.
C10_CooldownRange == cooldownSeconds \in 0..CooldownDuration

\* the last second of the second cooldown
C10_Witness ==
  /\ cooldownStarts = 2
  /\ cooldownSeconds = 1
  /\ timers # {}

\* C11: a failed attempt leaves exactly one error message on display: the
\* step that fails shows one, and the token-error slot and the submit-error
\* slot never both hold a message.
C11_ExactlyOneMessage ==
  /\ ~(recaptchaError # "" /\ submitError # "")
  /\ lastEvent \in {"TokenReject", "StreamError"}
       => (recaptchaError # "" \/ submitError # "")

\* the messages the adapter makes for a blocked completion
ContentPolicyMessages == {SafetyMessage, RecitationMessage}

\* the messages of the other failures of the adapter
OtherFailureMessages == {AdapterCatch(raw) : raw \in BackendErrors}

\* C12: after a stream whose finish reason is SAFETY or RECITATION the
\* error on display is the content-policy error, not one of the generic,
\* credential, quota or rate-limit failures.
C12_ContentPolicyError ==
  lastFinish \in {"SAFETY", "RECITATION"}
    => /\ submitError \in ContentPolicyMessages
       /\ submitError \notin OtherFailureMessages

\* C13: the step that ends a stream with STOP leaves the concatenation of
\* the chunk texts received, in order, with isStreaming = false, and no error.
C13_StopCompletes ==
  [][lastFinish' = "STOP"
       => \E id \in ActiveStreams :
            /\ id \notin DOMAIN calls'
            /\ analysisResult' = Some(Snapshot(calls[id].totalText, FALSE))
            /\ \A i \in 1..Len(calls[id].totalText) :
                 /\ calls[id].totalText[i][1] = id
                 /\ \A j \in 1..Len(calls[id].totalText) :
                      i < j => calls[id].totalText[i][2] < calls[id].totalText[j][2]
            /\ submitError' = ""
            /\ recaptchaError' = ""]_vars

\* two chunks with text, then STOP
C13_Witness ==
  /\ lastFinish = "STOP"
  /\ analysisResult = Some(Snapshot(<<ChunkToken(1, 1), ChunkToken(1, 2)>>, FALSE))
  /\ submitError = ""

\* C14: the step that ends a stream with MAX_TOKENS is a success: the chunk
\* texts followed by the notice, isStreaming = false, no error, cooldown started.
C14_MaxTokensSucceeds ==
  [][lastFinish' = "MAX_TOKENS"
       => \E id \in ActiveStreams :
            /\ id \notin DOMAIN calls'
            /\ analysisResult' =
                 Some(Snapshot(calls[id].totalText \o <<NoticeToken(id)>>, FALSE))
            /\ submitError' = ""
            /\ recaptchaError' = ""
            /\ ~isAnalyzing'
            /\ cooldownSeconds' = CooldownDuration
            /\ timers' = timers \cup {id}
            /\ cooldownStarts' = cooldownStarts + 1]_vars

\* one chunk with text, then the length limit
C14_Witness ==
  /\ lastFinish = "MAX_TOKENS"
  /\ analysisResult = Some(Snapshot(<<ChunkToken(1, 1), NoticeToken(1)>>, FALSE))
  /\ cooldownSeconds = CooldownDuration
  /\ timers = {1}

\* handleSubmit is waiting for its token; the submitAnalysis it will call was
\* rendered over some document, configuration and key.
ValidateInit ==
  /\ parsedResume \in {Null, Some([text |-> "resumeA", source |-> "text", fileName |-> "Pasted Text"])}
  /\ formData \in [analysisDepth : {"", "compact"}, domain : {"", "technical"},
                   targetRole : {"", "Backend Engineer"}, targetCompany : {"", "Acme"},
                   experienceLevel : {"", "Mid"}]
  /\ apiKey \in ApiKeys
  /\ analysisResult = Null
  /\ isAnalyzing = FALSE
  /\ cooldownSeconds = 0
  /\ isVerifying = TRUE
  /\ recaptchaError = ""
  /\ isSubmitting = FALSE
  /\ submitError = ""
  /\ calls = (1 :> [pc |-> "token", action |-> TokenAction,
                    parsedResume |-> parsedResume, formData |-> formData,
                    apiKey |-> apiKey, chunks |-> 0, totalText |-> <<>>,
                    fullContent |-> <<>>])
  /\ timers = {}
  /\ tokenRequests = 1
  /\ genRequests = 0
  /\ snapshots = <<>>
  /\ ticks = 0
  /\ submitCalls = 0
  /\ cooldownStarts = 0
  /\ lastEvent = "Click"
  /\ lastFinish = ""
  /\ lastSubmit = Null
  /\ DocumentInit
  /\ RunsInit

ValidateNext == \E token \in Tokens : TokenResolve(1, token)

ValidateSpec == ValidateInit /\ [][ValidateNext]_vars

ConfigMessages ==
  {"Please complete the analysis configuration",
   "Please enter target role and company",
   "Please select your experience level"}

ConfigComplete(fd) == \A k \in DOMAIN fd : fd[k] # ""

\* C15: submitAnalysis checks the document, then the configuration fields,
\* then the API key; the first check that fails gives the error on display,
\* and neither buildPrompt nor the generation request is reached.
C15_FirstFailingCheck ==
  [][\A id \in DOMAIN calls :
       (calls[id].pc = "token" /\ lastEvent' = "TokenResolve") =>
         LET c == calls[id]
             stopped == /\ ~Get(lastSubmit').built
                        /\ genRequests' = genRequests
                        /\ id \notin DOMAIN calls'
                        /\ ~isAnalyzing'
         IN /\ c.parsedResume = Null
                 => submitError' = "Please upload or paste your resume first" /\ stopped
            /\ (c.parsedResume # Null /\ ~ConfigComplete(c.formData))
                 => submitError' \in ConfigMessages /\ stopped
            /\ (c.parsedResume # Null /\ ConfigComplete(c.formData) /\ c.apiKey = "")
                 => submitError' = "Please enter your Gemini API key" /\ stopped]_vars

\* no document, incomplete configuration and no key: the document check decides
C15_Witness ==
  /\ lastEvent = "TokenResolve"
  /\ parsedResume = Null /\ formData.targetRole = "" /\ apiKey = ""
  /\ submitError = "Please upload or paste your resume first"
  /\ genRequests = 0

\* C16: an accepted click requests one token, under the action name
\* "submit_analysis"; onSubmit gets the token that came back; and the
\* generation request is made only in a step in which that token has arrived.
C16_OneTokenPerAttempt ==
  [][/\ tokenRequests' # tokenRequests
          => /\ lastEvent' = "Click"
             /\ tokenRequests' = tokenRequests + 1
             /\ DOMAIN calls' = DOMAIN calls \cup {tokenRequests'}
             /\ calls'[tokenRequests'].pc = "token"
             /\ calls'[tokenRequests'].action = "submit_analysis"
     /\ (lastEvent' = "Click" /\ ~domDisabled /\ ~handleSubmitReturnsEarly)
          => tokenRequests' = tokenRequests + 1
     /\ submitCalls' # submitCalls
          => /\ submitCalls' = submitCalls + 1
             /\ \E id \in DOMAIN calls : calls[id].pc = "token"
             /\ lastSubmit' # Null
             /\ Get(lastSubmit').passed = Get(lastSubmit').returned
     /\ genRequests' # genRequests
          => /\ submitCalls' = submitCalls + 1
             /\ genRequests' = genRequests + 1
             /\ genRequests' <= tokenRequests
     /\ submitCalls' <= tokenRequests']_vars

\* the token came back, went to onSubmit, and the stream was started
C16_Witness ==
  /\ lastSubmit = Some([returned |-> "tok", passed |-> "tok", built |-> TRUE])
  /\ genRequests = 1
  /\ tokenRequests = 1
  /\ 1 \in ActiveStreams

\* ---- the adapter's catch block over any raw error -------------------------
Markers == {"API_KEY_INVALID", "QUOTA_EXCEEDED", "RATE_LIMIT_EXCEEDED"}

\* A raw error: an Error or some other thrown value, its message, and the
\* markers the message includes.
RawErrors ==
  [isError : BOOLEAN,
   msg : {"", "Failed to fetch", "[400] backend said no", "[429] too many requests"},
   codes : SUBSET Markers]

AdapterInit ==
  /\ AppInit
  /\ DocumentInit
  /\ hydrateRun = Null
  /\ fileRun = Null
  /\ extractRun = Null
  /\ storeCall = Null
  /\ adapterRun \in {Some([raw |-> raw, thrown |-> ""]) : raw \in RawErrors}

\* the try block throws the raw error and the catch block maps it
AdapterThrow ==
  /\ adapterRun # Null
  /\ Get(adapterRun).thrown = ""
  /\ adapterRun' = Some([Get(adapterRun) EXCEPT !.thrown = AdapterCatch(Get(adapterRun).raw)])
  /\ UNCHANGED <<parsedResume, formData, analysisResult, isAnalyzing, cooldownSeconds,
                 apiKey, isVerifying, recaptchaError, isSubmitting, submitError, calls,
                 timers, tokenRequests, genRequests, snapshots, ticks, submitCalls,
                 cooldownStarts, lastEvent, lastFinish, lastSubmit, document, hydrateRun,
                 fileRun, extractRun, storeCall>>

AdapterNext == AdapterThrow

AdapterSpec == AdapterInit /\ [][AdapterNext]_vars

NamedFailure ==
  [API_KEY_INVALID |-> "Invalid API key. Please check your Gemini API key.",
   QUOTA_EXCEEDED |-> "API quota exceeded. Please try again later or check your billing.",
   RATE_LIMIT_EXCEEDED |-> "Rate limit exceeded. Please wait a moment and try again."]

\* what the adapter throws for the raw errors that report none of the three conditions
GenericFailures ==
  {AdapterCatch(raw) : raw \in {r \in RawErrors : ~r.isError \/ r.codes = {}}}

\* C17: an Error that reports a rejected credential, an exhausted quota or a
\* rate limit is thrown on as the failure named for that condition; the
\* three named failures differ from each other and from every generic failure.
C17_NamedFailures ==
  /\ \A m, n \in Markers : m # n => NamedFailure[m] # NamedFailure[n]
  /\ (adapterRun # Null /\ Get(adapterRun).thrown # "") =>
       LET raw == Get(adapterRun).raw
           thrown == Get(adapterRun).thrown
       IN /\ \A m \in Markers :
               (raw.isError /\ raw.codes = {m})
                 => thrown = NamedFailure[m] /\ thrown \notin GenericFailures
          /\ (raw.isError /\ raw.codes # {}) => \E m \in raw.codes : thrown = NamedFailure[m]
          /\ (~raw.isError \/ raw.codes = {})
                 => \A m \in Markers : thrown # NamedFailure[m]

\* a quota failure has been mapped
C17_Witness ==
  /\ adapterRun # Null
  /\ Get(adapterRun).raw.isError
  /\ Get(adapterRun).raw.codes = {"QUOTA_EXCEEDED"}
  /\ Get(adapterRun).thrown = "API quota exceeded. Please try again later or check your billing."

\* the document handleFileSelect makes of a parse result
ParsedFile(file) ==
  [text |-> (IF file = "a.pdf" THEN "resumeA" ELSE "resumeB"),
   source |-> "file", fileName |-> file]

appOnly ==
  <<formData, analysisResult, isAnalyzing, cooldownSeconds, apiKey, isVerifying,
    recaptchaError, isSubmitting, submitError, calls, timers, tokenRequests,
    genRequests, snapshots, ticks, submitCalls, cooldownStarts>>

\* Main.handleFileSelect up to its await: nothing holds back a selection
\* while an earlier file is still being parsed
HandleFileSelect(file) ==
  /\ Len(parseRequests) < MaxParses
  /\ isProcessing' = TRUE
  /\ parseError' = ""
  /\ parseRequests' = Append(parseRequests, file)
  /\ parses' = ((Len(parseRequests) + 1) :> file) @@ parses
  /\ lastEvent' = "HandleFileSelect"
  /\ lastFinish' = ""
  /\ lastSubmit' = Null
  /\ UNCHANGED <<parsedResume, appOnly, parseDone, runs>>

\* parseFile resolves: the document is stored, then the finally block
ParseResolve(id) ==
  /\ id \in DOMAIN parses
  /\ parsedResume' = Some(ParsedFile(parses[id]))
  /\ isProcessing' = FALSE
  /\ parses' = Without(parses, id)
  /\ parseDone' = parseDone \cup {id}
  /\ lastEvent' = "ParseResolve"
  /\ lastFinish' = ""
  /\ lastSubmit' = Null
  /\ UNCHANGED <<appOnly, parseError, parseRequests, runs>>

\* parseFile rejects: the catch block, then the finally block
ParseReject(id, message) ==
  /\ id \in DOMAIN parses
  /\ parseError' = message
  /\ isProcessing' = FALSE
  /\ parses' = Without(parses, id)
  /\ lastEvent' = "ParseReject"
  /\ lastFinish' = ""
  /\ lastSubmit' = Null
  /\ UNCHANGED <<parsedResume, appOnly, parseRequests, parseDone, runs>>

ParseNext ==
  \/ \E file \in {"a.pdf", "b.md"} : HandleFileSelect(file)
  \/ \E id \in 1..MaxParses : ParseResolve(id)
  \/ \E id \in 1..MaxParses,
        message \in {"File appears to be empty or too small to contain a resume.",
                     "Failed to parse file. Please try a different format."} :
       ParseReject(id, message)

ParseSpec == Init /\ [][ParseNext]_vars

\* C18: once no file is being parsed any more, and the file selected last
\* was parsed, the active document is the document of the file selected last.
C18_LastRequestedWins ==
  (/\ parses = <<>>
   /\ Len(parseRequests) >= 2
   /\ Len(parseRequests) \in parseDone)
    => parsedResume = Some(ParsedFile(parseRequests[Len(parseRequests)]))

\* ---- buildPrompt: the prompt templates and their hydration ----------------
\* Text is a sequence of tokens: literal text, a newline, a {{name}}
\* placeholder, a {{#name}} or {{/name}} marker, or the text of a value.
Lit(text) == [k |-> "lit", v |-> text]
NL == [k |-> "nl", v |-> ""]
Var(name) == [k |-> "var", v |-> name]
Open(name) == [k |-> "open", v |-> name]
Close(name) == [k |-> "close", v |-> name]
Val(text) == [k |-> "val", v |-> text]

PROMPT_TEMPLATES ==
  [compact |->
     [universal |->
        [system |->
            << Lit("You are a recruiter with 10+ years of experience hiring for both technical and non-technical roles. Analyze the provided resume and provide targeted, actionable feedback. You should adapt your feedback to the role type, focusing on clarity, measurable results, alignment, and recruiter perception. Follow the output format strictly.") >>,
         user |->
            << Lit("Please analyze this resume for the role of "),
               Var("targetRole"),
               Lit(" at "),
               Var("targetCompany"),
               Lit(" for a "),
               Var("experienceLevel"),
               Lit(" candidate."),
               NL,
               NL,
               Open("geographicFocus"),
               Lit("Geographic Focus: "),
               Var("geographicFocus"),
               NL,
               Close("geographicFocus"),
               Open("specialFocus"),
               Lit("Special Focus: "),
               Var("specialFocus"),
               NL,
               Close("specialFocus"),
               Open("memo"),
               NL,
               Lit("Resume:"),
               NL,
               Var("resumeText"),
               NL,
               NL,
               Lit("Output Format:"),
               NL,
               Lit("1. Overall Impression (100-150 words)"),
               NL,
               Lit("2. Strengths (3-5 bullets)"),
               NL,
               Lit("3. Areas to Improve (5-7) - Problem, Why, Fix, Priority"),
               NL,
               Lit("4. Clarity & Impact Table"),
               NL,
               Lit("5. ATS & Keywords - present, missing, placement"),
               NL,
               Lit("6. Top 5 Changes - ranked by impact"),
               NL,
               NL,
               Lit("IMPORTANT:"),
               NL,
               Lit("- Separate each section with a blank line for readability."),
               NL,
               Lit("- Keep your response to a MAXIMUM of 500 words total. Be concise and prioritize the most impactful feedback."),
               NL,
               NL,
               Lit("Focus on actionable feedback that will improve interview callback chances.") >>],
      technical |->
        [system |->
            << Lit("You are a veteran recruiter with 10+ years hiring for software engineering roles. Your job is to critically evaluate technical resumes and provide actionable feedback that maximizes interview callback chances. Focus on technical skills, project impact, engineering leadership, and alignment with software engineering best practices. Follow the output format strictly.") >>,
         user |->
            << Lit("Please analyze this technical resume for the role of "),
               Var("targetRole"),
               Lit(" at "),
               Var("targetCompany"),
               Lit(" for a "),
               Var("experienceLevel"),
               Lit(" candidate."),
               NL,
               NL,
               Open("geographicFocus"),
               Lit("Geographic Focus: "),
               Var("geographicFocus"),
               NL,
               Close("geographicFocus"),
               Open("specialFocus"),
               Lit("Technical Focus: "),
               Var("specialFocus"),
               NL,
               Close("specialFocus"),
               Open("memo"),
               Lit("Additional Notes: "),
               Var("memo"),
               NL,
               Close("memo"),
               NL,
               Lit("Resume:"),
               NL,
               Var("resumeText"),
               NL,
               NL,
               Lit("Output Format():"),
               NL,
               Lit("1. Overall Impression (100-150 words)"),
               NL,
               Lit("2. Strengths (3-5 bullets)"),
               NL,
               Lit("3. Areas to Improve (5-7) - Problem, Why, Fix, Priority"),
               NL,
               Lit("4. Clarity & Impact Table"),
               NL,
               Lit("5. ATS & Keywords - present, missing, placement"),
               NL,
               Lit("6. Top 5 Recommendations (Ranked)"),
               NL,
               NL,
               Lit("IMPORTANT:"),
               NL,
               Lit("- Separate each section with a blank line for readability."),
               NL,
               Lit("- Keep your response to a MAXIMUM of 500 words total. Be concise and prioritize the most impactful feedback."),
               NL,
               NL,
               Lit("Be direct, example-based, and benchmark against strong candidates. Highlight clarity, metrics, and recruiter filters.") >>],
      nonTechnical |->
        [system |->
            << Lit("You are an experienced career advisor and recruiter with 10+ years of experience hiring for business, marketing, sales, operations, and other non-technical roles. You understand what makes resumes stand out in competitive non-technical fields. Focus on leadership, business impact, communication skills, and industry-specific achievements. Follow the output format strictly.") >>,
         user |->
            << Lit("Please analyze this resume for the "),
               Var("targetRole"),
               Lit(" role at "),
               Var("targetCompany"),
               Lit(" for a "),
               Var("experienceLevel"),
               Lit(" candidate."),
               NL,
               NL,
               Open("geographicFocus"),
               Lit("Geographic Focus: "),
               Var("geographicFocus"),
               NL,
               Close("geographicFocus"),
               Open("specialFocus"),
               Lit("Industry Focus: "),
               Var("specialFocus"),
               NL,
               Close("specialFocus"),
               Open("memo"),
               NL,
               Lit("Resume:"),
               NL,
               Var("resumeText"),
               NL,
               NL,
               Lit("Output Format:"),
               NL,
               Lit("1. Overall Impression (100-150 words)"),
               NL,
               Lit("2. Key Strengths (3-5 bullets)"),
               NL,
               Lit("3. Areas to Improve (5-7) - Problem, Why, Fix, Priority"),
               NL,
               Lit("4. Leadership & Impact Assessment"),
               NL,
               Lit("5. Industry Alignment & Keywords"),
               NL,
               Lit("6. Communication & Presentation"),
               NL,
               Lit("7. Top 5 Changes - ranked by impact"),
               NL,
               NL,
               Lit("IMPORTANT:"),
               NL,
               Lit("- Separate each section with a blank line for readability."),
               NL,
               Lit("- Keep your response to a MAXIMUM of 500 words total. Be concise and prioritize the most impactful feedback."),
               NL,
               NL,
               Lit("Focus on business impact, leadership potential, and industry fit.") >>]],
   full |->
     [universal |->
        [system |->
            << Lit("You are a comprehensive career advisor with 15+ years of experience across multiple industries and company sizes. You provide detailed, strategic resume analysis that considers both immediate hiring needs and long-term career positioning. Your analysis should be thorough, considering industry trends, ATS optimization, and human reviewer preferences. Follow the output format strictly.") >>,
         user |->
            << Lit("Please provide a comprehensive analysis of this resume for the "),
               Var("targetRole"),
               Lit(" position at "),
               Var("targetCompany"),
               Lit(" for a "),
               Var("experienceLevel"),
               Lit(" candidate."),
               NL,
               NL,
               Open("geographicFocus"),
               Lit("Geographic Focus: "),
               Var("geographicFocus"),
               NL,
               Close("geographicFocus"),
               Open("specialFocus"),
               Lit("Special Focus: "),
               Var("specialFocus"),
               NL,
               Close("specialFocus"),
               Open("memo"),
               NL,
               Lit("Resume:"),
               NL,
               Var("resumeText"),
               NL,
               NL,
               Lit("Comprehensive Analysis Format:"),
               NL,
               Lit("1. Executive Summary (150-200 words)"),
               NL,
               Lit("2. Detailed Strengths Analysis (5-7 points with examples)"),
               NL,
               Lit("3. Improvement Opportunities (7-10 detailed recommendations)"),
               NL,
               Lit("4. Industry & Role Alignment Assessment"),
               NL,
               Lit("5. ATS Optimization Report"),
               NL,
               Lit("6. Keyword Strategy & Gap Analysis"),
               NL,
               Lit("7. Formatting & Presentation Review"),
               NL,
               Lit("8. Career Positioning Strategy"),
               NL,
               Lit("9. Competitive Landscape Context"),
               NL,
               Lit("10. Action Plan with Timeline"),
               NL,
               NL,
               Lit("IMPORTANT:"),
               NL,
               Lit("- Separate each section with a blank line for readability."),
               NL,
               Lit("- Keep your response to a MAXIMUM of 1000 words total. Be thorough but focused."),
               NL,
               NL,
               Lit("Provide strategic, detailed feedback that positions the candidate for long-term success.") >>],
      technical |->
        [system |->
            << Lit("You are a senior technical hiring manager and recruiter with 15+ years of experience at top tech companies including FAANG, unicorns, and high-growth startups. You understand both the technical requirements and business context of software engineering roles. Provide comprehensive technical resume analysis that considers technical depth, leadership trajectory, and industry positioning. Follow the output format strictly.") >>,
         user |->
            << Lit("Please provide a comprehensive technical analysis of this resume for the "),
               Var("targetRole"),
               Lit(" position at "),
               Var("targetCompany"),
               Lit(" for a "),
               Var("experienceLevel"),
               Lit(" candidate."),
               NL,
               NL,
               Open("geographicFocus"),
               Lit("Geographic Focus: "),
               Var("geographicFocus"),
               NL,
               Close("geographicFocus"),
               Open("specialFocus"),
               Lit("Technical Domain: "),
               Var("specialFocus"),
               NL,
               Close("specialFocus"),
               Open("memo"),
               NL,
               Lit("Resume:"),
               NL,
               Var("resumeText"),
               NL,
               NL,
               Lit("Comprehensive Technical Analysis:"),
               NL,
               Lit("1. Technical Executive Summary (150-200 words)"),
               NL,
               Lit("2. Technical Skills Deep Dive"),
               NL,
               Lit("3. Project Portfolio Analysis"),
               NL,
               Lit("4. Engineering Leadership Assessment"),
               NL,
               Lit("5. Architecture & Systems Thinking"),
               NL,
               Lit("6. Code Quality & Best Practices Signals"),
               NL,
               Lit("7. Industry Technology Alignment"),
               NL,
               Lit("8. Career Progression & Growth Trajectory"),
               NL,
               Lit("9. Technical Communication Assessment"),
               NL,
               Lit("10. Market Positioning & Competitive Analysis"),
               NL,
               Lit("11. Technical Interview Readiness"),
               NL,
               Lit("12. Strategic Improvement Roadmap"),
               NL,
               NL,
               Lit("IMPORTANT:"),
               NL,
               Lit("- Separate each section with a blank line for readability."),
               NL,
               Lit("- Keep your response to a MAXIMUM of 1000 words total. Be thorough but focused."),
               NL,
               NL,
               Lit("Focus on technical excellence, engineering leadership, and career advancement in technology.") >>],
      nonTechnical |->
        [system |->
            << Lit("You are a senior executive recruiter and career strategist with 15+ years of experience placing candidates in leadership and specialized non-technical roles across industries including finance, marketing, operations, sales, and consulting. Provide comprehensive analysis that considers industry dynamics, leadership potential, and strategic career positioning. Follow the output format strictly.") >>,
         user |->
            << Lit("Please provide a comprehensive analysis of this resume for the "),
               Var("targetRole"),
               Lit(" position at "),
               Var("targetCompany"),
               Lit(" for a "),
               Var("experienceLevel"),
               Lit(" candidate."),
               NL,
               NL,
               Open("geographicFocus"),
               Lit("Geographic Focus: "),
               Var("geographicFocus"),
               NL,
               Close("geographicFocus"),
               Open("specialFocus"),
               Lit("Industry/Function Focus: "),
               Var("specialFocus"),
               NL,
               Close("specialFocus"),
               Open("memo"),
               NL,
               Lit("Resume:"),
               NL,
               Var("resumeText"),
               NL,
               NL,
               Lit("Comprehensive Business Analysis:"),
               NL,
               Lit("1. Executive Summary & First Impression (150-200 words)"),
               NL,
               Lit("2. Business Impact & Results Analysis"),
               NL,
               Lit("3. Leadership & Management Assessment"),
               NL,
               Lit("4. Industry Expertise & Domain Knowledge"),
               NL,
               Lit("5. Strategic Thinking & Problem Solving"),
               NL,
               Lit("6. Communication & Stakeholder Management"),
               NL,
               Lit("7. Career Progression & Growth Trajectory"),
               NL,
               Lit("8. Market Positioning & Competitive Advantage"),
               NL,
               Lit("9. Cultural & Organizational Fit"),
               NL,
               Lit("10. Executive Presence & Personal Brand"),
               NL,
               Lit("11. Network & Relationship Capital"),
               NL,
               Lit("12. Strategic Career Development Plan"),
               NL,
               NL,
               Lit("IMPORTANT:"),
               NL,
               Lit("- Separate each section with a blank line for readability."),
               NL,
               Lit("- Keep your response to a MAXIMUM of 1000 words total. Be thorough but focused."),
               NL,
               NL,
               Lit("Focus on business acumen, leadership potential, and industry positioning.") >>]]]

\* the keys of the object submitAnalysis gives to buildPrompt, in its order
VariableKeys ==
  <<"resumeText", "targetRole", "targetCompany", "experienceLevel",
    "geographicFocus", "specialFocus", "memo">>

OptionalKeys == {"geographicFocus", "specialFocus", "memo"}

\* Object.entries: the keys the object has; a key can be there with the
\* value undefined (Null)
Entries(variables) == SelectSeq(VariableKeys, LAMBDA key : key \in variables.keys)

\* String(value) as text
ValueTokens(value) == IF value = "" THEN <<>> ELSE <<Val(value)>>

\* result.replace(/{{key}}/g, String(value))
RECURSIVE ReplaceAllVar(_, _, _)
ReplaceAllVar(result, key, tokens) ==
  IF result = <<>> THEN <<>>
  ELSE (IF Head(result) = Var(key) THEN tokens ELSE <<Head(result)>>)
         \o ReplaceAllVar(Tail(result), key, tokens)

\* result.replace(marker, ""): a string pattern, so the first occurrence only
RECURSIVE RemoveFirst(_, _)
RemoveFirst(result, marker) ==
  IF result = <<>> THEN <<>>
  ELSE IF Head(result) = marker THEN Tail(result)
  ELSE <<Head(result)>> \o RemoveFirst(Tail(result), marker)

Positions(result, token) == {i \in 1..Len(result) : result[i] = token}

Min(S) == CHOOSE i \in S : \A j \in S : i <= j

\* result.replace(/{{#key}}[\s\S]*?{{\/key}}/g, ""): every region from an
\* opening marker to the nearest closing marker after it
RECURSIVE RemoveRegions(_, _)
RemoveRegions(result, key) ==
  LET opens == Positions(result, Open(key)) IN
  IF opens = {} THEN result
  ELSE LET i == Min(opens)
           closes == {j \in Positions(result, Close(key)) : j > i}
       IN IF closes = {} THEN result
          ELSE SubSeq(result, 1, i - 1)
                 \o RemoveRegions(SubSeq(result, Min(closes) + 1, Len(result)), key)

\* the first forEach: placeholders of the keys whose value is not undefined
RECURSIVE SubstitutePass(_, _, _)
SubstitutePass(result, keys, variables) ==
  IF keys = <<>> THEN result
  ELSE LET value == variables.val[Head(keys)]
       IN SubstitutePass(IF value # Null
                           THEN ReplaceAllVar(result, Head(keys), ValueTokens(Get(value)))
                           ELSE result,
                         Tail(keys), variables)

HasValue(value) == value # Null /\ Get(value) # ""

\* the second forEach: the conditional blocks
RECURSIVE ConditionalPass(_, _, _)
ConditionalPass(result, keys, variables) ==
  IF keys = <<>> THEN result
  ELSE LET key == Head(keys)
       IN ConditionalPass(IF HasValue(variables.val[key])
                            THEN RemoveFirst(RemoveFirst(result, Open(key)), Close(key))
                            ELSE RemoveRegions(result, key),
                          Tail(keys), variables)

\* (a slip: the remaining template syntax is left in the text)
CleanupNone(result) == result

\* result.replace(/\{\{[^}]+\}\}/g, "")
Cleanup(result) == SelectSeq(result, LAMBDA t : t.k \notin {"var", "open", "close"})

\* result.replace(/\n{3,}/g, "\n\n"); run: the newlines just before
RECURSIVE CollapseNewlines(_, _)
CollapseNewlines(result, run) ==
  IF result = <<>> THEN <<>>
  ELSE IF Head(result) = NL
    THEN (IF run >= 2 THEN <<>> ELSE <<NL>>) \o CollapseNewlines(Tail(result), run + 1)
  ELSE <<Head(result)>> \o CollapseNewlines(Tail(result), 0)

RECURSIVE TrimStart(_)
TrimStart(result) ==
  IF result # <<>> /\ Head(result) = NL THEN TrimStart(Tail(result)) ELSE result

RECURSIVE TrimEnd(_)
TrimEnd(result) ==
  IF result # <<>> /\ result[Len(result)] = NL
    THEN TrimEnd(SubSeq(result, 1, Len(result) - 1))
    ELSE result

Trim(result) == TrimEnd(TrimStart(result))

replaceVariables(template, variables) ==
  LET keys == Entries(variables)
      substituted == SubstitutePass(template, keys, variables)
      conditioned == ConditionalPass(substituted, keys, variables)
  IN Trim(CollapseNewlines(Cleanup(conditioned), 0))

buildPrompt(analysisDepth, domain, variables) ==
  LET template == PROMPT_TEMPLATES[analysisDepth][domain]
  IN [system |-> replaceVariables(template.system, variables),
      user |-> replaceVariables(template.user, variables)]

FieldValue(key, presence) ==
  IF presence = "value"
    THEN Some([geographicFocus |-> "Berlin", specialFocus |-> "Kubernetes",
               memo |-> "Career changer"][key])
  ELSE IF presence = "empty" THEN Some("")
  ELSE Null

PromptVariables(presence) ==
  [keys |-> {"resumeText", "targetRole", "targetCompany", "experienceLevel"}
              \cup {key \in OptionalKeys : presence[key] # "absent"},
   val |-> [resumeText |-> Some("resumeA"),
            targetRole |-> Some("Backend Engineer"),
            targetCompany |-> Some("Acme"),
            experienceLevel |-> Some("Mid"),
            geographicFocus |-> FieldValue("geographicFocus", presence.geographicFocus),
            specialFocus |-> FieldValue("specialFocus", presence.specialFocus),
            memo |-> FieldValue("memo", presence.memo)]]

HydrateInit ==
  /\ AppInit
  /\ DocumentInit
  /\ adapterRun = Null
  /\ fileRun = Null
  /\ extractRun = Null
  /\ storeCall = Null
  /\ hydrateRun \in
       {Some([analysisDepth |-> depth, domain |-> domain,
              variables |-> PromptVariables(presence),
              done |-> FALSE, system |-> <<>>, user |-> <<>>]) :
          depth \in {"compact", "full"}, domain \in {"universal", "technical", "nonTechnical"},
          presence \in [OptionalKeys -> {"absent", "undefined", "empty", "value"}]}

\* buildPrompt is called and returns the prompt
HydrateBuild ==
  /\ hydrateRun # Null
  /\ ~Get(hydrateRun).done
  /\ LET run == Get(hydrateRun)
         prompt == buildPrompt(run.analysisDepth, run.domain, run.variables)
     IN hydrateRun' = Some([run EXCEPT !.done = TRUE,
                                       !.system = prompt.system,
                                       !.user = prompt.user])
  /\ UNCHANGED <<parsedResume, formData, analysisResult, isAnalyzing, cooldownSeconds,
                 apiKey, isVerifying, recaptchaError, isSubmitting, submitError, calls,
                 timers, tokenRequests, genRequests, snapshots, ticks, submitCalls,
                 cooldownStarts, lastEvent, lastFinish, lastSubmit, document, adapterRun,
                 fileRun, extractRun, storeCall>>

HydrateNext == HydrateBuild

HydrateSpec == HydrateInit /\ [][HydrateNext]_vars

IsSyntax(token) == token.k \in {"var", "open", "close"}

TextTokens(text) == {text[i] : i \in 1..Len(text)}

WithoutKey(variables, key) ==
  [keys |-> variables.keys \ {key},
   val |-> [variables.val EXCEPT ![key] = Null]]

\* the variables object with the key set to undefined
WithUndefined(variables, key) ==
  [keys |-> variables.keys \cup {key},
   val |-> [variables.val EXCEPT ![key] = Null]]

\* the literal text a template holds between the markers of a key
RegionLiterals(template, key) ==
  {template[i] : i \in {n \in 1..Len(template) :
      /\ template[n].k = "lit"
      /\ \E a \in Positions(template, Open(key)), b \in Positions(template, Close(key)) :
           a < n /\ n < b}}

MaxFileSize == 1048576
MinFileSize == 100

\* A mime type is <<>> (none) or <<type, subtype>>; a file name is the
\* sequence of its parts between dots.
PdfMime == <<"application", "pdf">>
DocxMime ==
  <<"application", "vnd.openxmlformats-officedocument.wordprocessingml.document">>
DocMime == <<"application", "msword">>
MarkdownMime == <<"text", "markdown">>
PlainMime == <<"text", "plain">>

ToLowerCase(word) ==
  IF word = "PDF" THEN "pdf"
  ELSE IF word = "TEXT" THEN "text"
  ELSE IF word = "PLAIN" THEN "plain"
  ELSE word

\* file.name.toLowerCase().split(".").pop() || ""
Extension(name) == ToLowerCase(name[Len(name)])

\* file.type.toLowerCase()
MimeType(type) == [i \in 1..Len(type) |-> ToLowerCase(type[i])]

Throw(message) == [kind |-> "throw", v |-> message]
Extract(extractor) == [kind |-> "extract", v |-> extractor]

TooLargeMessage == "File size must be under 1MB. Please compress or trim your resume."
TooSmallMessage == "File appears to be empty or too small to contain a resume."
LegacyDocMessage ==
  "Legacy .doc files are not supported. Please save as .docx or export as PDF."
UnsupportedMessage == "Unsupported file type"

\* the try block of parseFile: the first format whose test the file passes
Dispatch(mimeType, extension) ==
  IF mimeType = PdfMime \/ extension = "pdf" THEN Extract("parsePDF")
  ELSE IF mimeType = DocxMime \/ extension = "docx" THEN Extract("parseDOCX")
  ELSE IF mimeType = DocMime \/ extension = "doc" THEN Throw(LegacyDocMessage)
  ELSE IF mimeType = MarkdownMime \/ extension = "md" \/ extension = "markdown"
    THEN Extract("parseMarkdown")
  ELSE IF (mimeType # <<>> /\ mimeType[1] = "text") \/ extension = "txt" \/ mimeType = <<>>
    THEN Extract("parseTextFile")
  ELSE Throw(UnsupportedMessage)

\* (a slip: the minimum size is not checked)
ParseFileNoMinimum(size, type, name) ==
  IF size > MaxFileSize THEN Throw(TooLargeMessage)
  ELSE Dispatch(MimeType(type), Extension(name))

\* parseFile up to the call of an extractor
ParseFile(size, type, name) ==
  IF size > MaxFileSize THEN Throw(TooLargeMessage)
  ELSE IF size < MinFileSize THEN Throw(TooSmallMessage)
  ELSE Dispatch(MimeType(type), Extension(name))

FileInit ==
  /\ AppInit
  /\ DocumentInit
  /\ adapterRun = Null
  /\ hydrateRun = Null
  /\ extractRun = Null
  /\ storeCall = Null
  /\ fileRun \in {Some([size |-> size, type |-> type, name |-> name,
                        done |-> FALSE, outcome |-> Throw("")]) :
                    size \in {0, MinFileSize - 1, MinFileSize, 5000, MaxFileSize,
                              MaxFileSize + 1},
                    type \in {<<>>, PdfMime, DocxMime, DocMime, MarkdownMime, PlainMime,
                              <<"text", "csv">>, <<"image", "png">>, <<"TEXT", "PLAIN">>},
                    name \in {<<"resume", ext>> :
                                ext \in {"pdf", "PDF", "docx", "doc", "md", "markdown",
                                         "txt", "exe", ""}}
                               \cup {<<"resume">>, <<"pdf">>}}

\* parseFile is called with the file
FileParse ==
  /\ fileRun # Null
  /\ ~Get(fileRun).done
  /\ LET run == Get(fileRun)
     IN fileRun' = Some([run EXCEPT !.done = TRUE,
                                    !.outcome = ParseFile(run.size, run.type, run.name)])
  /\ UNCHANGED <<parsedResume, appOnly, lastEvent, lastFinish, lastSubmit, document,
                 adapterRun, hydrateRun, extractRun, storeCall>>

FileNext == FileParse

FileSpec == FileInit /\ [][FileNext]_vars

MimeFormat(mimeType) ==
  IF mimeType = PdfMime THEN "parsePDF"
  ELSE IF mimeType = DocxMime THEN "parseDOCX"
  ELSE IF mimeType = MarkdownMime THEN "parseMarkdown"
  ELSE IF mimeType = PlainMime THEN "parseTextFile"
  ELSE ""

\* the format an extension names
ExtensionFormat(extension) ==
  IF extension = "pdf" THEN "parsePDF"
  ELSE IF extension = "docx" THEN "parseDOCX"
  ELSE IF extension \in {"md", "markdown"} THEN "parseMarkdown"
  ELSE IF extension = "txt" THEN "parseTextFile"
  ELSE ""

SizeAccepted(size) == size >= 100 /\ size <= 1024 * 1024

\* C23: when the mime type names a supported format, the extractor of that
\* format is chosen, whatever the extension.
C23_MimeFirst ==
  (fileRun # Null /\ Get(fileRun).done) =>
    LET run == Get(fileRun) IN
    (SizeAccepted(run.size) /\ MimeFormat(MimeType(run.type)) # "")
      => run.outcome = Extract(MimeFormat(MimeType(run.type)))

WordsPerPage == 500
MaxPdfPages == 3

\* Content is a sequence of items: n words with single spaces between them,
\* a run of whitespace, a heading marker "#", a list marker "-".
Words(n) == [k |-> "w", n |-> n]
Space == [k |-> "s", n |-> 0]
HeadingMark == [k |-> "h", n |-> 0]
ListMark == [k |-> "b", n |-> 0]

Contents ==
  { <<>>,
    <<Space>>,
    <<Words(1)>>,
    <<Words(250)>>,
    <<Space, Words(500), Space>>,
    <<Words(500), Space, Space, Words(1)>>,
    <<Words(1200), Space, Words(301)>>,
    <<HeadingMark, Space, Words(2), Space, ListMark, Space, Words(498)>>,
    <<HeadingMark, Space, Words(500)>>,
    <<HeadingMark, Words(3), Space, Words(2), ListMark>> }

\* .replace(/\s+/g, " ")
RECURSIVE NormalizeWhitespace(_)
NormalizeWhitespace(text) ==
  IF text = <<>> THEN <<>>
  ELSE IF Head(text) = Space /\ Len(text) >= 2 /\ text[2] = Space
    THEN NormalizeWhitespace(Tail(text))
  ELSE <<Head(text)>> \o NormalizeWhitespace(Tail(text))

\* .trim()
RECURSIVE TrimText(_)
TrimText(text) ==
  IF text # <<>> /\ Head(text) = Space THEN TrimText(Tail(text))
  ELSE IF text # <<>> /\ text[Len(text)] = Space
    THEN TrimText(SubSeq(text, 1, Len(text) - 1))
  ELSE text

\* .split(/\s+/): the pieces between the runs of whitespace
RECURSIVE Split(_, _, _)
Split(text, piece, pieces) ==
  IF text = <<>> THEN Append(pieces, piece)
  ELSE IF Head(text) = Space THEN Split(Tail(text), <<>>, Append(pieces, piece))
  ELSE Split(Tail(text), Append(piece, Head(text)), pieces)

ItemWords(item) == IF item.k = "w" THEN item.n ELSE IF item.k = "s" THEN 0 ELSE 1

\* the words of a piece: items with no whitespace between them share a word
RECURSIVE PieceWords(_)
PieceWords(piece) ==
  IF piece = <<>> THEN 0
  ELSE IF Len(piece) = 1 THEN ItemWords(piece[1])
  ELSE ItemWords(Head(piece)) - 1 + PieceWords(Tail(piece))

RECURSIVE SumWords(_)
SumWords(pieces) ==
  IF pieces = <<>> THEN 0 ELSE PieceWords(Head(pieces)) + SumWords(Tail(pieces))

\* text.split(/\s+/).filter((word) => word.length > 0).length
WordCount(text) ==
  SumWords(SelectSeq(Split(text, <<>>, <<>>), LAMBDA piece : piece # <<>>))

\* (a slip: Math.floor in place of Math.ceil)
PageCountFloor(wordCount) == wordCount \div WordsPerPage

\* Math.ceil(wordCount / 500)
PageCount(wordCount) == (wordCount + WordsPerPage - 1) \div WordsPerPage

\* parseMarkdown's plainText: heading markers and the list markers at the
\* start of a line go, with the whitespace after them
RECURSIVE StripMarkdown(_, _)
StripMarkdown(text, lineStart) ==
  IF text = <<>> THEN <<>>
  ELSE IF Head(text) = HeadingMark /\ Len(text) >= 2 /\ text[2] = Space
    THEN StripMarkdown(Tail(Tail(text)), FALSE)
  ELSE IF Head(text) = ListMark /\ lineStart /\ Len(text) >= 2 /\ text[2] = Space
    THEN StripMarkdown(Tail(Tail(text)), FALSE)
  ELSE <<Head(text)>> \o StripMarkdown(Tail(text), Head(text) = Space)

ParseResult(text, wordCount, pageCount) ==
  [text |-> text, wordCount |-> wordCount, pageCount |-> pageCount]

parseTextInput(content) ==
  LET cleanText == TrimText(NormalizeWhitespace(content))
      wordCount == WordCount(cleanText)
  IN ParseResult(cleanText, wordCount, PageCount(wordCount))

parseDOCX(content) ==
  LET cleanText == TrimText(NormalizeWhitespace(content))
      wordCount == WordCount(cleanText)
  IN ParseResult(cleanText, wordCount, PageCount(wordCount))

\* the text returned keeps the markdown syntax; the words are counted without it
parseMarkdown(content) ==
  LET cleanText == content
      plainText == TrimText(StripMarkdown(cleanText, TRUE))
      wordCount == WordCount(plainText)
  IN ParseResult(cleanText, wordCount, PageCount(wordCount))

RECURSIVE JoinPages(_, _)
JoinPages(pageText, pages) ==
  IF pages = 0 THEN <<>>
  ELSE (IF pageText # <<>> THEN pageText \o <<Space>> ELSE <<>>)
         \o JoinPages(pageText, pages - 1)

\* every page of the document holds the content; the first three are read
parsePDF(content, numPages) ==
  LET maxPages == IF numPages < MaxPdfPages THEN numPages ELSE MaxPdfPages
      pageText == TrimText(NormalizeWhitespace(content))
      cleanText == TrimText(JoinPages(pageText, maxPages))
  IN ParseResult(cleanText, WordCount(cleanText), maxPages)

RunExtractor(extractor, content, numPages) ==
  IF extractor = "parseTextInput" THEN parseTextInput(content)
  ELSE IF extractor = "parseDOCX" THEN parseDOCX(content)
  ELSE IF extractor = "parseMarkdown" THEN parseMarkdown(content)
  ELSE parsePDF(content, numPages)

\* a call of an extractor that has not returned; numPages: the pages of a PDF
ExtractorCall(extractor, content, numPages) ==
  [extractor |-> extractor, content |-> content, numPages |-> numPages,
   done |-> FALSE, result |-> ParseResult(<<>>, 0, 0)]

ExtractInit ==
  /\ AppInit
  /\ DocumentInit
  /\ adapterRun = Null
  /\ hydrateRun = Null
  /\ fileRun = Null
  /\ storeCall = Null
  /\ extractRun \in
       {Some(ExtractorCall(extractor, content, 0)) :
          extractor \in {"parseTextInput", "parseDOCX", "parseMarkdown"}, content \in Contents}
         \cup {Some(ExtractorCall("parsePDF", content, numPages)) :
                 content \in Contents, numPages \in {1, 2, 3, 5}}

\* the extractor runs and returns its result
ExtractRun ==
  /\ extractRun # Null
  /\ ~Get(extractRun).done
  /\ LET run == Get(extractRun)
     IN extractRun' =
          Some([run EXCEPT !.done = TRUE,
                           !.result = RunExtractor(run.extractor, run.content, run.numPages)])
  /\ UNCHANGED <<parsedResume, appOnly, lastEvent, lastFinish, lastSubmit, document,
                 adapterRun, hydrateRun, fileRun, storeCall>>

ExtractNext == ExtractRun

ExtractSpec == ExtractInit /\ [][ExtractNext]_vars

\* the whitespace-delimited non-empty tokens of a text
RECURSIVE TokenCount(_, _)
TokenCount(text, inToken) ==
  IF text = <<>> THEN 0
  ELSE IF Head(text).k = "s" THEN TokenCount(Tail(text), FALSE)
  ELSE (IF Head(text).k = "w" THEN Head(text).n ELSE 1)
         - (IF inToken THEN 1 ELSE 0) + TokenCount(Tail(text), TRUE)

IsCeilOf(pageCount, wordCount) ==
  /\ pageCount * 500 >= wordCount
  /\ (pageCount - 1) * 500 < wordCount

\* C25: for every extractor, wordCount is the number of tokens of the text
\* returned and pageCount is ceil(wordCount / 500).
C25_PageCountFormula ==
  (extractRun # Null /\ Get(extractRun).done) =>
    LET result == Get(extractRun).result IN
    /\ result.wordCount = TokenCount(result.text, FALSE)
    /\ IsCeilOf(result.pageCount, result.wordCount)

\* C25 as amended: the formula holds for pasted text, text files and DOCX;
\* for Markdown the words are counted without the markdown syntax; for PDF
\* the page count is the number of pages read, at most three.
C25_PageCountByFormat ==
  (extractRun # Null /\ Get(extractRun).done) =>
    LET run == Get(extractRun)
        result == run.result
    IN /\ run.extractor \in {"parseTextInput", "parseDOCX"}
            => /\ result.wordCount = TokenCount(result.text, FALSE)
               /\ IsCeilOf(result.pageCount, result.wordCount)
       /\ run.extractor = "parseMarkdown"
            => /\ result.wordCount
                    = TokenCount(StripMarkdown(result.text, TRUE), FALSE)
               /\ IsCeilOf(result.pageCount, result.wordCount)
       /\ run.extractor = "parsePDF"
            => /\ result.wordCount = TokenCount(result.text, FALSE)
               /\ result.pageCount = (IF run.numPages < 3 THEN run.numPages ELSE 3)

\* 501 words of pasted text make two pages
C25_Witness ==
  /\ extractRun # Null
  /\ Get(extractRun).done
  /\ Get(extractRun).extractor = "parseTextInput"
  /\ Get(extractRun).content = <<Words(500), Space, Space, Words(1)>>
  /\ Get(extractRun).result = ParseResult(<<Words(500), Space, Words(1)>>, 501, 2)

\* ---- progress of a submission attempt --------------------------------------
\* the token request settles
TokenSettles ==
  \E id \in Ids :
    \/ \E error \in TokenErrors : TokenReject(id, error)
    \/ \E token \in Tokens : TokenResolve(id, token)

\* the stream settles
StreamSettles ==
  \E id \in Ids :
    \/ \E finishReason \in FinishReasons : StreamEnd(id, finishReason)
    \/ \E raw \in BackendErrors : StreamError(id, raw)

\* a live interval fires
TimerFires == \E t \in Ids : CooldownTick(t)

\* a document, a complete configuration and a key are in place
LiveInit ==
  /\ parsedResume = Some([text |-> "resumeA", source |-> "text", fileName |-> "Pasted Text"])
  /\ formData = [analysisDepth |-> "compact", domain |-> "universal",
                 targetRole |-> "Backend Engineer", targetCompany |-> "Acme",
                 experienceLevel |-> "Mid"]
  /\ apiKey = "AIkey"
  /\ analysisResult = Null
  /\ isAnalyzing = FALSE
  /\ cooldownSeconds = 0
  /\ isVerifying = FALSE
  /\ recaptchaError = ""
  /\ isSubmitting = FALSE
  /\ submitError = ""
  /\ calls = <<>>
  /\ timers = {}
  /\ tokenRequests = 0
  /\ genRequests = 0
  /\ snapshots = <<>>
  /\ ticks = 0
  /\ submitCalls = 0
  /\ cooldownStarts = 0
  /\ lastEvent = "Init"
  /\ lastFinish = ""
  /\ lastSubmit = Null
  /\ DocumentInit
  /\ RunsInit

\* the submit button and what follows a click; the inputs are left alone
LiveNext ==
  \/ Click
  \/ TokenSettles
  \/ \E id \in Ids, hasText \in BOOLEAN : StreamChunk(id, hasText)
  \/ StreamSettles
  \/ TimerFires

\* the token request and the stream settle, and a live interval keeps firing
LiveSpec ==
  /\ LiveInit
  /\ [][LiveNext]_vars
  /\ WF_vars(TokenSettles)
  /\ WF_vars(StreamSettles)
  /\ WF_vars(TimerFires)

Idle == ~isVerifying /\ ~isSubmitting /\ ~isAnalyzing

\* C26: an attempt in flight leads to Idle with no attempt in flight and no
\* cooldown left; a step that ends an attempt without starting a cooldown
\* leaves Idle at once.
C26_BackToIdle ==
  /\ (calls # <<>>) ~> (calls = <<>> /\ Idle /\ cooldownSeconds = 0 /\ timers = {})
  /\ [][(calls' = <<>> /\ calls # <<>> /\ cooldownStarts' = cooldownStarts) => Idle']_vars

\* a cooldown has been counted down to 0 after a success
C26_Witness ==
  /\ lastEvent = "CooldownTick"
  /\ cooldownStarts = 1
  /\ ticks = CooldownDuration
  /\ cooldownSeconds = 0
  /\ calls = <<>>
  /\ Idle

FieldOptions ==
  [targetRole |-> {"", "Backend Engineer"}, targetCompany |-> {"", "Acme"},
   experienceLevel |-> {"Entry", "Mid"}]

\* Partial<JobContextFormData>: any of the fields may be left out
PartialFormData ==
  UNION { { data \in [keys -> UNION {FieldOptions[k] : k \in DOMAIN FieldOptions}] :
              \A k \in keys : data[k] \in FieldOptions[k] } :
          keys \in SUBSET DOMAIN FieldOptions }

\* everything of the application but the three slots
notSlots ==
  <<isAnalyzing, cooldownSeconds, apiKey, isVerifying, recaptchaError, isSubmitting,
    submitError, calls, timers, tokenRequests, genRequests, snapshots, ticks,
    submitCalls, cooldownStarts, lastEvent, lastFinish, lastSubmit>>

\* the store as created: formData is the empty object
StoreInit ==
  /\ parsedResume = Null
  /\ formData = [k \in {} |-> ""]
  /\ analysisResult = Null
  /\ isAnalyzing = FALSE
  /\ cooldownSeconds = 0
  /\ apiKey = ""
  /\ isVerifying = FALSE
  /\ recaptchaError = ""
  /\ isSubmitting = FALSE
  /\ submitError = ""
  /\ calls = <<>>
  /\ timers = {}
  /\ tokenRequests = 0
  /\ genRequests = 0
  /\ snapshots = <<>>
  /\ ticks = 0
  /\ submitCalls = 0
  /\ cooldownStarts = 0
  /\ lastEvent = "Init"
  /\ lastFinish = ""
  /\ lastSubmit = Null
  /\ DocumentInit
  /\ RunsInit

\* setParsedResume: (parsedResume) => set({ parsedResume })
StoreSetParsedResume(resume) ==
  /\ parsedResume' = resume
  /\ storeCall' = Some([slot |-> "parsedResume", value |-> resume])
  /\ UNCHANGED <<formData, analysisResult, notSlots, document, adapterRun, hydrateRun,
                 fileRun, extractRun>>

\* setFormData: (formData) => set((state) => ({ formData: { ...state.formData, ...formData } }))
StoreSetFormData(data) ==
  /\ formData' = SetFormData(formData, data)
  /\ storeCall' = Some([slot |-> "formData", value |-> data])
  /\ UNCHANGED <<parsedResume, analysisResult, notSlots, document, adapterRun,
                 hydrateRun, fileRun, extractRun>>

\* setAnalysisResult: (analysisResult) => set({ analysisResult })
StoreSetAnalysisResult(result) ==
  /\ analysisResult' = result
  /\ storeCall' = Some([slot |-> "analysisResult", value |-> result])
  /\ UNCHANGED <<parsedResume, formData, notSlots, document, adapterRun, hydrateRun,
                 fileRun, extractRun>>

StoreNext ==
  \/ \E resume \in {Null} \cup {Some([text |-> text, source |-> "text",
                                       fileName |-> "Pasted Text"]) :
                                   text \in ResumeTexts} :
       StoreSetParsedResume(resume)
  \/ \E data \in PartialFormData : StoreSetFormData(data)
  \/ \E result \in {Null, Some(Snapshot(<<>>, TRUE)),
                     Some(Snapshot(<<<<1, 1>>>>, FALSE))} :
       StoreSetAnalysisResult(result)

StoreSpec == StoreInit /\ [][StoreNext]_vars

\* the slot a setter writes, as it is now
Slot(name) ==
  CASE name = "parsedResume" -> parsedResume
    [] name = "formData" -> formData
    [] name = "analysisResult" -> analysisResult

C27_DocumentAndResultWhole ==
  (storeCall # Null /\ Get(storeCall).slot # "formData") =>
    Slot(Get(storeCall).slot) = Get(storeCall).value

\* the configuration slot after an update: the fields supplied over the others
C27_ConfigurationMerged ==
  (storeCall # Null /\ Get(storeCall).slot = "formData") =>
    /\ DOMAIN Get(storeCall).value \subseteq DOMAIN formData
    /\ \A k \in DOMAIN Get(storeCall).value : formData[k] = Get(storeCall).value[k]

\* ---- the values a stream is started from ---------------------------------
\* C28: a step that issues the generation request builds the prompt from the
\* document and the configuration that are active at that step, whatever was
\* cleared or replaced since the submit action was accepted.
C28_BuiltFromActive ==
  [][genRequests' = genRequests + 1 =>
       \E id \in DOMAIN calls :
         /\ calls[id].pc = "token"
         /\ calls'[id].pc = "streaming"
         /\ calls[id].parsedResume = parsedResume
         /\ calls[id].formData = formData]_vars

\* ---- the result at rest ----------------------------------------------------
\* C29: whenever isSubmitting is false, analysisResult is null or is not
\* streaming, and isAnalyzing is false.
C29_RestingResult ==
  ~isSubmitting =>
    /\ analysisResult = Null \/ ~Get(analysisResult).isStreaming
    /\ ~isAnalyzing

\* a stream has ended with a complete result and nothing is in flight
C29_Witness ==
  /\ ~isSubmitting
  /\ lastEvent = "StreamEnd"
  /\ analysisResult # Null
  /\ ~Get(analysisResult).isStreaming
  /\ Get(analysisResult).content # <<>>

\* ---- a failure before the stream -----------------------------------------
\* C30: an attempt that ends before a generation request is issued (the token
\* request is rejected, or a check or buildPrompt throws) leaves analysisResult
\* exactly as it was.
C30_EarlyFailureKeepsResult ==
  [][(/\ lastEvent' \in {"TokenReject", "TokenResolve"}
      /\ genRequests' = genRequests) => analysisResult' = analysisResult]_vars

\* the same for a rejected token request alone
C30_TokenFailureKeepsResult ==
  [][lastEvent' = "TokenReject" => analysisResult' = analysisResult]_vars

====
